---- MODULE Spec2Model ----
(***************************************************************************)
(* A model of PyPD's constitutive laws (pypd/constitutive_law.py) and of   *)
(* the rigid penetrator (classes/penetrator.py).                           *)
(*                                                                         *)
(* Python floats are modelled as exact values: a rational n/d, the square  *)
(* root of a positive rational (the only irrational the constructors       *)
(* produce, by np.sqrt), an infinity, a NaN, or None.  The sign of a zero  *)
(* is kept (0/1 is +0.0, 0/-1 is -0.0) because numpy's division by zero    *)
(* reads it.  Material and ParticleSet fields and the constructor          *)
(* arguments are Python numbers, so a division between them raises         *)
(* ZeroDivisionError on a zero divisor, while a division with an np.exp    *)
(* or np.sqrt result on either side follows IEEE 754.                      *)
(***************************************************************************)
EXTENDS Integers, Sequences, FiniteSets

\* ------------------------------------------------------------------ bounds

\* Number of bonds in the damage arrays handed to calculate_bond_damage.
NBonds == 2
\* Damage values are the multiples of 1/DGrid in [0,1], held as 0..DGrid.
DGrid == 1
\* Number of particles of the particle set the penetrator is built from.
NNodes == 2
\* Number of time steps of the simulation (simulation.n_time_steps).
NTimeSteps == 2

\* ------------------------------------------------------------ float values

Abs(i) == IF i < 0 THEN -i ELSE i

RECURSIVE GCD(_, _)
GCD(a, b) == IF b = 0 THEN a ELSE GCD(b, a % b)

None == [k |-> "none", n |-> 0, d |-> 1]
NaN == [k |-> "nan", n |-> 0, d |-> 1]
\* A Python exception raised while the value was being computed.
ZeroDivisionError == [k |-> "err", n |-> 0, d |-> 1]
Inf(sign) == [k |-> "inf", n |-> sign, d |-> 1]
\* A zero with its sign: +0.0 is 0/1, -0.0 is 0/-1.
Zero(sign) == [k |-> "rat", n |-> 0, d |-> sign]

\* The rational n/d (d # 0) in lowest terms with a positive denominator.
Rat(n, d) ==
    IF n = 0 THEN Zero(1)
    ELSE LET g == GCD(Abs(n), Abs(d))
             s == IF d < 0 THEN -1 ELSE 1
         IN [k |-> "rat", n |-> (s * n) \div g, d |-> (s * d) \div g]

Num(i) == Rat(i, 1)

IsErr(a) == a.k = "err"
IsZero(a) == a.k = "rat" /\ a.n = 0
Den(a) == IF a.n = 0 THEN 1 ELSE a.d
\* The sign of a value, the sign of the zero for a zero.
Sgn(a) == IF a.n > 0 THEN 1 ELSE IF a.n < 0 THEN -1 ELSE a.d

FNeg(a) ==
    CASE a.k = "err" -> a
      [] a.k = "nan" -> NaN
      [] a.k = "inf" -> Inf(-a.n)
      [] a.k = "rat" -> IF a.n = 0 THEN Zero(-a.d) ELSE Rat(-a.n, a.d)

FAdd(a, b) ==
    CASE a.k = "err" -> a
      [] b.k = "err" -> b
      [] a.k = "nan" \/ b.k = "nan" -> NaN
      [] a.k = "inf" /\ b.k = "inf" -> IF a.n = b.n THEN a ELSE NaN
      [] a.k = "inf" -> a
      [] b.k = "inf" -> b
      [] a.k = "rat" /\ b.k = "rat" ->
            LET g == GCD(Den(a), Den(b))
                n == a.n * (Den(b) \div g) + b.n * (Den(a) \div g)
            IN IF n # 0 THEN Rat(n, (Den(a) \div g) * Den(b))
               ELSE IF a.n = 0 /\ b.n = 0 /\ a.d = -1 /\ b.d = -1
                    THEN Zero(-1) ELSE Zero(1)

FSub(a, b) == FAdd(a, FNeg(b))

FMul(a, b) ==
    CASE a.k = "err" -> a
      [] b.k = "err" -> b
      [] a.k = "nan" \/ b.k = "nan" -> NaN
      [] a.k = "inf" \/ b.k = "inf" ->
            IF IsZero(a) \/ IsZero(b) THEN NaN ELSE Inf(Sgn(a) * Sgn(b))
      [] a.k = "rat" /\ b.k = "rat" ->
            IF a.n = 0 \/ b.n = 0 THEN Zero(Sgn(a) * Sgn(b))
            ELSE LET g == GCD(Abs(a.n), b.d)
                     h == GCD(Abs(b.n), a.d)
                 IN Rat((a.n \div g) * (b.n \div h),
                        (a.d \div h) * (b.d \div g))

\* IEEE 754 division of two finite or infinite values (b is not a zero).
FQuot(a, b) ==
    CASE a.k = "nan" \/ b.k = "nan" -> NaN
      [] a.k = "inf" /\ b.k = "inf" -> NaN
      [] a.k = "inf" -> Inf(Sgn(a) * Sgn(b))
      [] b.k = "inf" -> Zero(Sgn(a) * Sgn(b))
      [] a.k = "rat" /\ b.k = "rat" ->
            IF a.n = 0 THEN Zero(Sgn(a) * Sgn(b))
            ELSE LET g == GCD(Abs(a.n), Abs(b.n))
                     h == GCD(a.d, b.d)
                 IN Rat((a.n \div g) * (b.d \div h),
                        (a.d \div h) * (b.n \div g))

\* a / b between Python numbers: a zero divisor raises ZeroDivisionError.
PyDiv(a, b) ==
    CASE a.k = "err" -> a
      [] b.k = "err" -> b
      [] IsZero(b) -> ZeroDivisionError
      [] OTHER -> FQuot(a, b)

\* a / b with a numpy float64 on either side: a zero divisor gives an
\* infinity, or NaN for 0/0, and a RuntimeWarning, never an exception.
NpDiv(a, b) ==
    CASE a.k = "err" -> a
      [] b.k = "err" -> b
      [] IsZero(b) ->
            IF a.k = "nan" \/ IsZero(a) THEN NaN ELSE Inf(Sgn(a) * Sgn(b))
      [] OTHER -> FQuot(a, b)

RECURSIVE FPow(_, _)
\* a ** e for a natural exponent e.
FPow(a, e) == IF e = 0 THEN Num(1) ELSE FMul(a, FPow(a, e - 1))

\* np.sqrt: NaN (and a RuntimeWarning) for a negative argument, the zero
\* itself for a zero, and otherwise the root, kept exact as the root of n/d.
NpSqrt(a) ==
    CASE a.k = "err" -> a
      [] a.k = "nan" -> NaN
      [] a.k = "inf" -> IF a.n > 0 THEN a ELSE NaN
      [] a.k = "rat" ->
            IF a.n < 0 THEN NaN
            ELSE IF a.n = 0 THEN a
            ELSE [k |-> "sqrt", n |-> a.n, d |-> a.d]

\* a < b on floats; every comparison with NaN is false.
Lt(a, b) ==
    CASE a.k = "nan" \/ b.k = "nan" -> FALSE
      [] a.k = "inf" -> a.n < 0 /\ ~(b.k = "inf" /\ b.n < 0)
      [] b.k = "inf" -> b.n > 0
      [] a.k = "rat" /\ b.k = "rat" -> a.n * Den(b) < b.n * Den(a)
      [] a.k = "rat" /\ b.k = "sqrt" ->
            a.n < 0 \/ a.n * a.n * b.d < b.n * Den(a) * Den(a)
      [] a.k = "sqrt" /\ b.k = "rat" ->
            b.n > 0 /\ a.n * b.d * b.d < b.n * b.n * a.d
      [] a.k = "sqrt" /\ b.k = "sqrt" -> a.n * b.d < b.n * a.d

IsNum(a) == a.k \in {"rat", "sqrt", "inf"}
Le(a, b) == IsNum(a) /\ IsNum(b) /\ ~Lt(b, a)
Ge(a, b) == Le(b, a)
Gt(a, b) == Lt(b, a)
NumEq(a, b) == Le(a, b) /\ Le(b, a)

\* Python truthiness of None or a float: None and the zeros are false.
Truthy(a) == ~(a.k = "none" \/ IsZero(a))

\* Python's `a or b`: a when a is truthy, else b (b is evaluated only then).
PyOr(a, b) == IF Truthy(a) THEN a ELSE b

\* np.pi, the double nearest to pi; 355/113 stands for it.
PiNum == 355
PiDen == 113
Pi == Rat(PiNum, PiDen)

\* ------------------------------------------------------- constitutive laws

VARIABLES
    args,       \* the arguments of the last law constructor call
    ctor,       \* how that call ended: "new" (not made), "returned", "raised"
    law,        \* the law object the constructor returned
    d,          \* the bond damage array the simulation holds
    call,       \* the last calculate_bond_damage call and its outcome
    x,          \* particles.x, the particles' current positions
    pen,        \* the Penetrator object
    x_init,     \* particles.x as it was when the penetrator was constructed
    pcall       \* the last Penetrator method call and its outcome

vars == <<args, ctor, law, d, call, x, pen, x_init, pcall>>
lawVars == <<args, ctor, law, d, call>>
penVars == <<x, pen, x_init, pcall>>

\* ConstitutiveLaw._calculate_bond_stiffness: 9 E / (pi t horizon^3).
calculate_bond_stiffness(E, t, horizon) ==
    PyDiv(FMul(Num(9), E), FMul(FMul(Pi, t), FPow(horizon, 3)))

\* Linear._calculate_sc: sqrt(4 pi Gf / (9 E horizon)).
Linear_calculate_sc(E, Gf, horizon) ==
    NpSqrt(PyDiv(FMul(FMul(Num(4), Pi), Gf), FMul(FMul(Num(9), E), horizon)))

\* The callable a law's _calculate_bond_damage returns: the kernel it calls
\* and the parameter values it closed over.
Wrapper(kernel, s0, s1, sc, beta, alpha, k) ==
    [kernel |-> kernel, s0 |-> s0, s1 |-> s1, sc |-> sc, beta |-> beta,
     alpha |-> alpha, k |-> k]

NoWrapper == Wrapper("none", None, None, None, None, None, None)

\* Linear._calculate_bond_damage(sc, damage_on) with the damage_on test
\* left out: the wrapper around the linear kernel in both cases.
Linear_calculate_bond_damage_always_on(sc, damage_on) ==
    Wrapper("linear", None, None, sc, None, None, None)

\* Linear._calculate_bond_damage(sc, damage_on) with the damage_on test
\* inverted.
Linear_calculate_bond_damage_inverted(sc, damage_on) ==
    IF damage_on
    THEN Wrapper("zeros_like", None, None, None, None, None, None)
    ELSE Wrapper("linear", None, None, sc, None, None, None)

\* Linear._calculate_bond_damage(sc, damage_on): the wrapper around the
\* linear kernel when damage is on, the one returning np.zeros_like(d) when
\* it is off.
Linear_calculate_bond_damage(sc, damage_on) ==
    IF damage_on
    THEN Wrapper("linear", None, None, sc, None, None, None)
    ELSE Wrapper("zeros_like", None, None, None, None, None, None)

\* Trilinear._calculate_bond_damage(s0, s1, sc, beta)
Trilinear_calculate_bond_damage(s0, s1, sc, beta) ==
    Wrapper("trilinear", s0, s1, sc, beta, None, None)

\* NonLinear._calculate_bond_damage(s0, sc, alpha, k)
NonLinear_calculate_bond_damage(s0, sc, alpha, k) ==
    Wrapper("nonlinear", s0, None, sc, None, alpha, k)

\* The attributes of a law object; a variant leaves the ones it does not
\* set at None (damage_on, which only Linear sets, at TRUE).
LawObject(variant, t, c, s0, s1, sc, beta, gamma, alpha, k, damage_on, wrapper) ==
    [variant |-> variant, t |-> t, c |-> c, s0 |-> s0, s1 |-> s1, sc |-> sc,
     beta |-> beta, gamma |-> gamma, alpha |-> alpha, k |-> k,
     damage_on |-> damage_on, calculate_bond_damage |-> wrapper]

NoLaw ==
    LawObject("none", None, None, None, None, None, None, None, None, None,
              FALSE, NoWrapper)

\* A constructor's outcome: the object, or the exception when one of the
\* values its body computes raised.
Returned(obj) == [status |-> "returned", exc |-> "none", obj |-> obj]
Raised(exc) == [status |-> "raised", exc |-> exc, obj |-> NoLaw]
Constructed(obj, values) ==
    IF \E v \in values : IsErr(v) THEN Raised("ZeroDivisionError")
    ELSE Returned(obj)

\* Linear.__init__
Linear_init(a) ==
    LET c == PyOr(a.c, calculate_bond_stiffness(a.E, a.t, a.horizon))
        sc == PyOr(a.sc, Linear_calculate_sc(a.E, a.Gf, a.horizon))
    IN Constructed(
          LawObject("Linear", a.t, c, None, None, sc, None, None, None, None,
                    a.damage_on,
                    Linear_calculate_bond_damage(sc, a.damage_on)),
          {c, sc})

\* Trilinear._calculate_gamma
Trilinear_calculate_gamma(beta) ==
    PyDiv(FAdd(Num(3), FMul(Num(2), beta)),
          FMul(FMul(Num(2), beta), FSub(Num(1), beta)))

\* Trilinear._calculate_s0 and NonLinear._calculate_s0: ft / E.
calculate_s0(ft, E) == PyDiv(ft, E)

\* Trilinear._calculate_sc
Trilinear_calculate_sc(Gf, horizon, t, c, s0, beta, gamma) ==
    LET numerator == FMul(FMul(Num(4), gamma), Gf)
        denominator ==
            FMul(FMul(FMul(FMul(t, FPow(horizon, 4)), c), s0),
                 FAdd(Num(1), FMul(gamma, beta)))
    IN FAdd(PyDiv(numerator, denominator), s0)

\* Trilinear._calculate_s1
Trilinear_calculate_s1(s0, sc, gamma) == FAdd(s0, PyDiv(FSub(sc, s0), gamma))

\* Trilinear.__init__: an exception in one assignment ends the body, and
\* ZeroDivisionError is the only one these assignments raise.
Trilinear_init(a) ==
    LET gamma == Trilinear_calculate_gamma(a.beta)
        c == PyOr(a.c, calculate_bond_stiffness(a.E, a.t, a.horizon))
        s0 == PyOr(a.s0, calculate_s0(a.ft, a.E))
        sc == PyOr(a.sc, Trilinear_calculate_sc(a.Gf, a.horizon, a.t, c, s0,
                                                a.beta, gamma))
        s1 == Trilinear_calculate_s1(s0, sc, gamma)
    IN Constructed(
          LawObject("Trilinear", a.t, c, s0, s1, sc, a.beta, gamma, None,
                    None, TRUE,
                    Trilinear_calculate_bond_damage(s0, s1, sc, a.beta)),
          {gamma, c, s0, sc, s1})

\* np.exp(k) for a natural k; 19/7 stands for e.
ENum == 19
EDen == 7
NpExp(k) == FPow(Rat(ENum, EDen), k.n)

\* NonLinear._calculate_sc.  np.exp returns a numpy float64, so the two
\* divisions follow IEEE 754.
NonLinear_calculate_sc(Gf, horizon, t, c, s0, alpha, k) ==
    LET ek == NpExp(k)
        two_k == FMul(Num(2), k)
        two_ek == FMul(Num(2), ek)
        ak == FMul(alpha, k)
        akek == FMul(FMul(alpha, k), ek)
        one_alpha == FAdd(Num(1), alpha)
        numerator_a ==
            FMul(FMul(FMul(Num(4), k), FSub(Num(1), ek)), one_alpha)
        numerator_b ==
            NpDiv(FMul(FMul(FMul(FMul(t, c), FPow(horizon, 4)), FPow(s0, 2)),
                       FSub(FAdd(FSub(two_k, two_ek), ak),
                            FAdd(akek, Num(2)))),
                  FAdd(FMul(Num(4), k), FMul(FSub(ek, Num(1)), one_alpha)))
        numerator == FMul(numerator_a, FSub(Gf, numerator_b))
        denominator_a == FMul(FMul(FMul(t, c), FPow(horizon, 4)), s0)
        denominator_b ==
            FAdd(FSub(FAdd(FSub(two_k, two_ek), ak), akek), Num(2))
        denominator == FMul(denominator_a, denominator_b)
    IN NpDiv(numerator, denominator)

\* NonLinear.__init__
NonLinear_init(a) ==
    LET c == PyOr(a.c, calculate_bond_stiffness(a.E, a.t, a.horizon))
        s0 == PyOr(a.s0, calculate_s0(a.ft, a.E))
        sc == PyOr(a.sc, NonLinear_calculate_sc(a.Gf, a.horizon, a.t, c, s0,
                                                a.alpha, a.k))
    IN Constructed(
          LawObject("NonLinear", a.t, c, s0, None, sc, None, None, a.alpha,
                    a.k, TRUE,
                    NonLinear_calculate_bond_damage(s0, sc, a.alpha, a.k)),
          {c, s0, sc})

\* The constructor the call `Variant(material, particles, t, ...)` runs.
NewLaw(a) ==
    CASE a.variant = "Linear" -> Linear_init(a)
      [] a.variant = "Trilinear" -> Trilinear_init(a)
      [] a.variant = "NonLinear" -> NonLinear_init(a)

\* ------------------------------------------------------------ Python calls

Return(val) == [kind |-> "return", exc |-> "none", val |-> val]
Raise(exc) == [kind |-> "raise", exc |-> exc, val |-> <<>>]

\* A call of a function declared with n_params parameters that is passed
\* n_passed positional arguments: Python raises TypeError before the body
\* runs unless the two agree.
PyCall(n_params, n_passed, body) ==
    IF n_passed = n_params THEN body ELSE Raise("TypeError")

\* ConstitutiveLaw.__init__ is declared `def __init__():`, with no self.
ConstitutiveLaw_init_params == 0
\* ConstitutiveLaw.calculate_bond_damage is declared with no parameters.
ConstitutiveLaw_calculate_bond_damage_params == 0

\* ConstitutiveLaw.calculate_bond_damage: its body raises.
ConstitutiveLaw_calculate_bond_damage(n_passed) ==
    PyCall(ConstitutiveLaw_calculate_bond_damage_params, n_passed,
           Raise("NotImplementedError"))

\* The classes that define no damage calculation of their own: Bilinear's
\* body is `pass`, so it inherits both methods of ConstitutiveLaw.
AbstractClasses == {"ConstitutiveLaw", "Bilinear"}

\* calculate_bond_damage called with n_args arguments on an abstract class:
\* on the class itself ("class"), or on an instance of it ("instance"),
\* which is made first, by cls(), and passes itself as one more argument.
AbstractCalculateBondDamage(cls, via, n_args) ==
    IF via = "class" THEN ConstitutiveLaw_calculate_bond_damage(n_args)
    ELSE LET made == PyCall(ConstitutiveLaw_init_params, 1, Return(<<>>))
         IN IF made.kind = "raise" THEN made
            ELSE ConstitutiveLaw_calculate_bond_damage(1 + n_args)

\* ----------------------------------------------------- bond damage kernels

Max(a, b) == IF a >= b THEN a ELSE b

FAbs(a) == IF Sgn(a) < 0 THEN FNeg(a) ELSE a

\* Damage 1, on the grid.
One == DGrid
DamageValues == 0 .. DGrid

\* kernels.constitutive_law.linear for one bond: the damage values it may
\* return.  The softening value is 1 once |stretch| >= sc, 0 at no stretch,
\* and some value of [0,1] otherwise; the result never falls below d.
linear(stretch, dj, sc) ==
    LET curve == IF Ge(FAbs(stretch), sc) THEN {One}
                 ELSE IF IsZero(stretch) THEN {0}
                 ELSE DamageValues
    IN {Max(dj, v) : v \in curve}

\* kernels.constitutive_law.trilinear for one bond: 0 for stretch <= s0,
\* 1 for stretch >= sc, a value of [0,1] between; never below d.
trilinear(stretch, dj, s0, s1, sc, beta) ==
    LET curve == IF Le(stretch, s0) THEN {0}
                 ELSE IF Ge(stretch, sc) THEN {One}
                 ELSE DamageValues
    IN {Max(dj, v) : v \in curve}

\* kernels.constitutive_law.nonlinear for one bond: 0 for stretch <= s0,
\* 1 for stretch >= sc, a value of [0,1] between; never below d.
nonlinear(stretch, dj, s0, sc, alpha, k) ==
    LET curve == IF Le(stretch, s0) THEN {0}
                 ELSE IF Ge(stretch, sc) THEN {One}
                 ELSE DamageValues
    IN {Max(dj, v) : v \in curve}

\* The arrays of the shape of dd whose entry j is one of choices[j].
Arrays(dd, choices) ==
    {r \in [1 .. Len(dd) -> DamageValues] :
        \A j \in 1 .. Len(dd) : r[j] \in choices[j]}

\* The wrapper Linear builds with damage off: np.zeros_like(d).
zeros_like(dd) == [j \in 1 .. Len(dd) |-> 0]

\* wrapper(stretch, d) of a law: the arrays the call may return.
CallWrapper(w, stretch, dd) ==
    CASE w.kernel = "zeros_like" -> {zeros_like(dd)}
      [] w.kernel = "linear" ->
            Arrays(dd, [j \in 1 .. Len(dd) |-> linear(stretch[j], dd[j], w.sc)])
      [] w.kernel = "trilinear" ->
            Arrays(dd, [j \in 1 .. Len(dd) |->
                trilinear(stretch[j], dd[j], w.s0, w.s1, w.sc, w.beta)])
      [] w.kernel = "nonlinear" ->
            Arrays(dd, [j \in 1 .. Len(dd) |->
                nonlinear(stretch[j], dd[j], w.s0, w.sc, w.alpha, w.k)])

\* ------------------------------------------------------------- law inputs

Optional(S) == {None} \cup S

Es == {Num(-1), Num(0), Num(2)}
Gfs == {Num(-1), Num(0), Num(1)}
Horizons == {Num(-1), Num(0), Num(1)}
Thicknesses == {Num(1)}
Fts == {Num(1)}
SuppliedC == Optional({Num(0), Num(3)})
SuppliedS0 == Optional({Num(0), Num(1)})
SuppliedSc == Optional({Num(0), Rat(1, 2), Num(2)})
Betas == {Rat(1, 4), Num(1)}
Alphas == {Rat(1, 4)}
Ks == {Num(0), Num(1)}

\* The arguments of Linear(material, particles, t, c, sc, damage_on),
\* Trilinear(material, particles, t, c, s0, sc, beta) and
\* NonLinear(material, particles, t, c, s0, sc, alpha, k).
CtorArgs ==
    [variant : {"Linear"}, E : Es, Gf : Gfs, ft : Fts, horizon : Horizons,
     t : Thicknesses, c : SuppliedC, s0 : {None}, sc : SuppliedSc,
     beta : {None}, alpha : {None}, k : {None}, damage_on : BOOLEAN]
    \cup
    [variant : {"Trilinear"}, E : Es, Gf : Gfs, ft : Fts, horizon : Horizons,
     t : Thicknesses, c : SuppliedC, s0 : SuppliedS0, sc : SuppliedSc,
     beta : Betas, alpha : {None}, k : {None}, damage_on : {TRUE}]
    \cup
    [variant : {"NonLinear"}, E : Es, Gf : Gfs, ft : Fts, horizon : Horizons,
     t : Thicknesses, c : SuppliedC, s0 : SuppliedS0, sc : SuppliedSc,
     beta : {None}, alpha : Alphas, k : Ks, damage_on : {TRUE}]

NoArgs ==
    [variant |-> "none", E |-> None, Gf |-> None, ft |-> None,
     horizon |-> None, t |-> None, c |-> None, s0 |-> None, sc |-> None,
     beta |-> None, alpha |-> None, k |-> None, damage_on |-> TRUE]

\* The laws the damage steps are run on: those of a material with positive
\* modulus, fracture energy and horizon, with the stiffness and the elastic
\* limit derived and the critical stretch derived or supplied.
DamageArgs ==
    {a \in CtorArgs :
        /\ a.E = Num(2) /\ a.Gf = Num(1) /\ a.horizon = Num(1)
        /\ a.c = None /\ a.s0 = None /\ a.sc \in {None, Num(2)}
        /\ NewLaw(a).status = "returned"}

\* Stretches below every elastic limit, between the limits, and beyond
\* every critical stretch of those laws.
Stretches == {Num(0), Num(1), Num(5)}
StretchArrays == [1 .. NBonds -> Stretches]
DamageArrays == [1 .. NBonds -> DamageValues]

NoCall ==
    [op |-> "none", target |-> "none", via |-> "none", n_args |-> 0,
     stretch |-> <<>>, d_prev |-> <<>>, kind |-> "none", exc |-> "none",
     val |-> <<>>]

\* ----------------------------------------------------------- law actions

\* Variant(material, particles, t, ...): the constructor call.
Construct ==
    /\ ctor.status = "new"
    /\ \E a \in CtorArgs :
          LET r == NewLaw(a)
          IN /\ args' = a
             /\ ctor' = [status |-> r.status, exc |-> r.exc]
             /\ law' = r.obj
    /\ UNCHANGED <<d, call>>
    /\ UNCHANGED penVars

\* calculate_bond_damage invoked on ConstitutiveLaw or on Bilinear.
InvokeAbstract ==
    /\ \E cls \in AbstractClasses, via \in {"class", "instance"},
          n_args \in {0, 2} :
          LET r == AbstractCalculateBondDamage(cls, via, n_args)
          IN call' = [op |-> "calculate_bond_damage", target |-> cls,
                      via |-> via, n_args |-> n_args, stretch |-> <<>>,
                      d_prev |-> <<>>, kind |-> r.kind, exc |-> r.exc,
                      val |-> r.val]
    /\ UNCHANGED <<args, ctor, law, d>>
    /\ UNCHANGED penVars

\* One time step's law.calculate_bond_damage(stretch, d) with a callable
\* that stores the largest stretch it was given as the law's critical
\* stretch, as a method assigning self.sc would.
CalculateBondDamage_overwriting_sc ==
    /\ ctor.status = "returned"
    /\ \E stretch \in StretchArrays :
          \E r \in CallWrapper(law.calculate_bond_damage, stretch, d) :
             /\ d' = r
             /\ call' = [op |-> "calculate_bond_damage",
                         target |-> law.variant, via |-> "instance",
                         n_args |-> 2, stretch |-> stretch, d_prev |-> d,
                         kind |-> "return", exc |-> "none", val |-> r]
             /\ law' = [law EXCEPT !.sc =
                            CHOOSE m \in {stretch[j] : j \in 1 .. Len(stretch)} :
                               \A j \in 1 .. Len(stretch) : Le(stretch[j], m)]
    /\ UNCHANGED <<args, ctor>>
    /\ UNCHANGED penVars

\* One time step's law.calculate_bond_damage(stretch, d); the simulation
\* keeps the returned array as the bond damage.
CalculateBondDamage ==
    /\ ctor.status = "returned"
    /\ \E stretch \in StretchArrays :
          \E r \in CallWrapper(law.calculate_bond_damage, stretch, d) :
             /\ d' = r
             /\ call' = [op |-> "calculate_bond_damage",
                         target |-> law.variant, via |-> "instance",
                         n_args |-> 2, stretch |-> stretch, d_prev |-> d,
                         kind |-> "return", exc |-> "none", val |-> r]
    /\ UNCHANGED <<args, ctor, law>>
    /\ UNCHANGED penVars

\* --------------------------------------------------------------- penetrator

\* Particle indices, as Python counts them: range(particles.n_nodes).
Nodes == 0 .. (NNodes - 1)

\* The factor of `self.search_radius = radius * 1.25`.
SearchFactor == Rat(5, 4)

\* The literal final displacement 1e-4 of update_penetrator_position.
TargetDisplacement == Rat(1, 10000)

\* np.sum(particles.x[i] - self.centre): the sum of the offset's components.
SumOfOffset(xi, centre) == (xi[1] - centre[1]) + (xi[2] - centre[2])

\* sqrt(q) ** 2.  For q a perfect square the float result is q itself; for
\* any other q it is q to within one rounding, which the model takes as q
\* (the inputs below keep search_radius a perfect square, so that the test
\* against it does not turn on that rounding).
SquareOfSqrt(a) ==
    CASE a.k = "nan" -> NaN
      [] a.k = "rat" -> FMul(a, a)
      [] a.k = "sqrt" -> Rat(a.n, a.d)

\* The distance of _build_family: np.sqrt(np.sum(x[i] - centre)) ** 2, the
\* square applied to the root and the sum taken of the unsquared offsets.
FamilyDistance(xi, centre) == SquareOfSqrt(NpSqrt(Num(SumOfOffset(xi, centre))))

\* The Euclidean distance of xi from centre is at most r.
WithinEuclidean(xi, centre, r) ==
    LET dx == xi[1] - centre[1]
        dy == xi[2] - centre[2]
    IN ~Lt(r, Num(0)) /\ Le(Num(dx * dx + dy * dy), FMul(r, r))

RECURSIVE build_family_from(_, _, _, _)
\* The loop of _build_family from index i on.
build_family_from(i, xs, centre, search_radius) ==
    IF i >= NNodes THEN <<>>
    ELSE LET rest == build_family_from(i + 1, xs, centre, search_radius)
         IN IF Le(FamilyDistance(xs[i], centre), search_radius)
            THEN <<i>> \o rest
            ELSE rest

\* Penetrator._build_family(particles)
build_family(xs, centre, search_radius) ==
    build_family_from(0, xs, centre, search_radius)

\* Penetrator.__init__(ID, centre, radius, particles)
Penetrator_init(ID, centre, radius, xs) ==
    [ID |-> ID, centre |-> centre, radius |-> radius,
     search_radius |-> FMul(radius, SearchFactor),
     family |-> build_family(xs, centre, FMul(radius, SearchFactor))]

\* The def statements of the body of class Penetrator, in source order:
\* the name each binds, the number of parameters it declares, its body.
PenetratorDefs ==
    << [name |-> "__init__", n_params |-> 5, body |-> "init"],
       [name |-> "_build_family", n_params |-> 2, body |-> "build_family"],
       [name |-> "update_penetrator_position", n_params |-> 3,
        body |-> "smooth_step"],
       [name |-> "calculate_penetrator_force", n_params |-> 4,
        body |-> "contact_force"],
       [name |-> "update_penetrator_position", n_params |-> 0,
        body |-> "pass"] >>

\* The attribute `name` of a class with the body `defs`: a def statement
\* binds its name in the class namespace, so the last one of a name stays.
ClassAttr(defs, name) ==
    LET last == CHOOSE i \in 1 .. Len(defs) :
                    /\ defs[i].name = name
                    /\ \A j \in (i + 1) .. Len(defs) : defs[j].name # name
    IN defs[last]

\* solver.calculate.smooth_step_data(i, x_start, x_end, y_start, y_end):
\* the cubic ease 3t^2 - 2t^3 of t = (i - x_start)/(x_end - x_start),
\* clamped to [0,1], scaled to [y_start, y_end].
smooth_step_data(i, x_start, x_end, y_start, y_end) ==
    LET t == IF i <= x_start THEN Num(0)
             ELSE IF i >= x_end THEN Num(1)
             ELSE Rat(i - x_start, x_end - x_start)
        ease == FSub(FMul(Num(3), FMul(t, t)),
                     FMul(Num(2), FMul(t, FMul(t, t))))
    IN FAdd(y_start, FMul(FSub(y_end, y_start), ease))

\* centre + s: numpy adds the scalar to every component.
Displaced(centre, s) == <<FAdd(Num(centre[1]), s), FAdd(Num(centre[2]), s)>>

\* The body of the first update_penetrator_position (lines 35-42).
SmoothStepPosition(p, i_time_step, n_time_steps) ==
    Displaced(p.centre,
              smooth_step_data(i_time_step, 0, n_time_steps, Num(0),
                               TargetDisplacement))

\* The call self.update_penetrator_position(i_time_step, n_time_steps): the
\* class attribute of that name, called with self and the two arguments.
update_penetrator_position(p, i_time_step, n_time_steps) ==
    LET def == ClassAttr(PenetratorDefs, "update_penetrator_position")
    IN PyCall(def.n_params, 3,
              IF def.body = "smooth_step"
              THEN Return(SmoothStepPosition(p, i_time_step, n_time_steps))
              ELSE Return(<<>>))

ForceValues == {0, 1}

\* solver.calculate.calculate_contact_force(family, radius, position, ...):
\* the force arrays it may return, over every particle index, zero at the
\* indices outside family.
calculate_contact_force(family, radius, position, xs) ==
    {f \in [Nodes -> ForceValues] :
        \A i \in Nodes : (\A j \in 1 .. Len(family) : family[j] # i) => f[i] = 0}

\* Penetrator.calculate_penetrator_force(particles, simulation, i_time_step):
\* the outcomes the call may have.  An exception of the position update
\* leaves the method before the contact force is computed.
calculate_penetrator_force(p, xs, n_time_steps, i_time_step) ==
    LET position == update_penetrator_position(p, i_time_step, n_time_steps)
    IN IF position.kind = "raise" THEN {position}
       ELSE {Return(f) :
                f \in calculate_contact_force(p.family, p.radius, position.val,
                                              xs)}

\* ------------------------------------------------------ penetrator inputs

Points == {<<0, 0>>, <<-1, 0>>, <<1, 0>>, <<1, -1>>, <<2, 0>>}
Centres == {<<0, 0>>}
Radii == {Rat(4, 5)}
IDs == {1}
Configurations == [Nodes -> Points]

NoPen ==
    [ID |-> 0, centre |-> <<0, 0>>, radius |-> None, search_radius |-> None,
     family |-> <<>>]

NoPCall ==
    [op |-> "none", i_time_step |-> 0, kind |-> "none", exc |-> "none",
     val |-> <<>>]

\* ----------------------------------------------------- penetrator actions

\* The simulation moves a particle.
MoveParticle ==
    /\ \E i \in Nodes, q \in Points :
          /\ x[i] # q
          /\ x' = [x EXCEPT ![i] = q]
    /\ UNCHANGED <<pen, x_init, pcall>>
    /\ UNCHANGED lawVars

\* penetrator.update_penetrator_position(i_time_step, n_time_steps)
UpdatePenetratorPosition ==
    /\ \E i \in 0 .. NTimeSteps :
          LET r == update_penetrator_position(pen, i, NTimeSteps)
          IN pcall' = [op |-> "update_penetrator_position",
                       i_time_step |-> i, kind |-> r.kind, exc |-> r.exc,
                       val |-> r.val]
    /\ UNCHANGED <<x, pen, x_init>>
    /\ UNCHANGED lawVars

\* calculate_penetrator_force, were it to search the family again among the
\* particles' current positions.
CalculatePenetratorForce_rebuilding_family ==
    /\ \E i \in 0 .. NTimeSteps :
          \E r \in calculate_penetrator_force(pen, x, NTimeSteps, i) :
             pcall' = [op |-> "calculate_penetrator_force",
                       i_time_step |-> i, kind |-> r.kind, exc |-> r.exc,
                       val |-> r.val]
    /\ pen' = [pen EXCEPT !.family = build_family(x, pen.centre,
                                                  pen.search_radius)]
    /\ UNCHANGED <<x, x_init>>
    /\ UNCHANGED lawVars

\* penetrator.calculate_penetrator_force(particles, simulation, i_time_step)
CalculatePenetratorForce ==
    /\ \E i \in 0 .. NTimeSteps :
          \E r \in calculate_penetrator_force(pen, x, NTimeSteps, i) :
             pcall' = [op |-> "calculate_penetrator_force",
                       i_time_step |-> i, kind |-> r.kind, exc |-> r.exc,
                       val |-> r.val]
    /\ UNCHANGED <<x, pen, x_init>>
    /\ UNCHANGED lawVars

\* ----------------------------------------------------------- specifications

LawIdle == args = NoArgs /\ ctor = [status |-> "new", exc |-> "none"]
              /\ law = NoLaw /\ d = <<>> /\ call = NoCall

PenetratorIdle == x = <<>> /\ pen = NoPen /\ x_init = <<>> /\ pcall = NoPCall

\* Construction of the laws, and the calls on the classes without one.
Init == LawIdle /\ PenetratorIdle
Next == Construct \/ InvokeAbstract
Spec == Init /\ [][Next]_vars

\* The time steps of a simulation that holds a constructed law and some
\* bond damage array.
DamageInit ==
    /\ \E a \in DamageArgs, d0 \in DamageArrays :
          /\ args = a
          /\ ctor = [status |-> "returned", exc |-> "none"]
          /\ law = NewLaw(a).obj
          /\ d = d0
    /\ call = NoCall
    /\ PenetratorIdle
DamageNext == CalculateBondDamage
DamageSpec == DamageInit /\ [][DamageNext]_vars

\* The time steps of a simulation that holds a constructed penetrator.
PenetratorInit ==
    /\ LawIdle
    /\ \E xs \in Configurations, c \in Centres, r \in Radii, id \in IDs :
          /\ x = xs
          /\ x_init = xs
          /\ pen = Penetrator_init(id, c, r, xs)
    /\ pcall = NoPCall
PenetratorNext ==
    MoveParticle \/ UpdatePenetratorPosition \/ CalculatePenetratorForce
PenetratorSpec == PenetratorInit /\ [][PenetratorNext]_vars

\* ------------------------------------------------------------------ claims

\* The last call was law.calculate_bond_damage(stretch, d_prev) on a
\* constructed law.
DamageCalled == call.op = "calculate_bond_damage" /\ call.kind = "return"
                   /\ call.target = law.variant

DamageDisabled == law.variant = "Linear" /\ ~law.damage_on

Bonds == 1 .. NBonds

\* C1, as stated: for every implemented law, damage disabled included, and
\* every stretch and d_prev in [0,1], every entry of the returned damage is
\* in [0,1] and is at least the entry of d_prev, so that damage fed back
\* step after step never decreases.
C1_RatchetForEveryLaw ==
    DamageCalled =>
        /\ d = call.val
        /\ \A j \in Bonds :
              /\ call.val[j] \in DamageValues
              /\ call.val[j] >= call.d_prev[j]

\* C1, amended: every entry of the returned damage is in [0,1]; for Linear
\* with damage on, Trilinear and NonLinear it is at least the entry of
\* d_prev; for Linear with damage off it is 0, which is at least the entry
\* of d_prev only where that entry is 0.  The returned array is the damage
\* the next step is given.
C1_RatchetWhenDamageOn ==
    DamageCalled =>
        /\ d = call.val
        /\ \A j \in Bonds :
              /\ call.val[j] \in DamageValues
              /\ ~DamageDisabled => call.val[j] >= call.d_prev[j]
              /\ DamageDisabled =>
                    /\ call.val[j] = 0
                    /\ (call.val[j] >= call.d_prev[j]) <=> (call.d_prev[j] = 0)

\* A law with damage on was called on an array with a damaged bond at no
\* stretch, which kept its damage, and a pristine bond whose damage rose.
C1_Witness ==
    /\ DamageCalled
    /\ ~DamageDisabled
    /\ \E j \in Bonds :
          /\ call.d_prev[j] > 0
          /\ IsZero(call.stretch[j])
          /\ call.val[j] = call.d_prev[j]
    /\ \E j \in Bonds : call.d_prev[j] = 0 /\ call.val[j] > 0

\* C2: a particle index is in the penetrator's family exactly when the
\* Euclidean distance of the particle from the centre, at construction, is
\* at most search_radius = 1.25 radius.
InFamily(i) == \E j \in 1 .. Len(pen.family) : pen.family[j] = i
C3_UpdateReturnsSmoothStep ==
    pcall.op = "update_penetrator_position" =>
        /\ pcall.kind = "return"
        /\ pcall.val = SmoothStepPosition(pen, pcall.i_time_step, NTimeSteps)

\* C4: calculate_penetrator_force(particles, simulation, i) completes for
\* every step index and returns a force array over all particle indices
\* that is zero at every index outside family.
C4_ForceReturnedAndZeroOutsideFamily ==
    pcall.op = "calculate_penetrator_force" =>
        /\ pcall.kind = "return"
        /\ DOMAIN pcall.val = Nodes
        /\ \A i \in Nodes : ~InFamily(i) => pcall.val[i] = 0

\* C5: calculate_bond_damage(stretch, d_prev) invoked on ConstitutiveLaw or
\* on Bilinear raises NotImplementedError, and nothing else.
C5_AbstractRaisesNotImplemented ==
    (/\ call.op = "calculate_bond_damage"
     /\ call.target \in AbstractClasses
     /\ call.n_args = 2) =>
        call.kind = "raise" /\ call.exc = "NotImplementedError"

\* C6: a constructor called with horizon <= 0, E <= 0 or Gf <= 0 raises; no
\* law object comes out of such arguments.
InvalidConfiguration(a) ==
    Le(a.horizon, Num(0)) \/ Le(a.E, Num(0)) \/ Le(a.Gf, Num(0))
C6_InvalidConfigurationRaises ==
    (ctor.status # "new" /\ InvalidConfiguration(args)) =>
        ctor.status = "raised" /\ law = NoLaw

\* C7: every Trilinear law a constructor returns has 0 < s0 < s1 < sc,
\* whatever c, s0 or sc the caller supplied; stated here of the laws built
\* with positive E, Gf and horizon only.
C7_TrilinearStretchesOrdered ==
    (/\ ctor.status = "returned"
     /\ law.variant = "Trilinear"
     /\ ~InvalidConfiguration(args)) =>
        Lt(Num(0), law.s0) /\ Lt(law.s0, law.s1) /\ Lt(law.s1, law.sc)

\* C8: the damage call of a Linear law built with damage_on = False returns
\* an array of the shape of its arguments with every entry 0, whatever the
\* stretch and the critical stretch.
C8_DisabledLinearReturnsZeros ==
    (DamageCalled /\ DamageDisabled) =>
        /\ Len(call.val) = Len(call.d_prev)
        /\ Len(call.val) = Len(call.stretch)
        /\ \A j \in 1 .. Len(call.val) : call.val[j] = 0

\* A Linear law with damage off was called with a bond stretched to its
\* critical stretch or beyond and a bond already damaged, and returned zeros.
C8_Witness ==
    /\ DamageCalled
    /\ DamageDisabled
    /\ \E j \in Bonds : Ge(call.stretch[j], law.sc)
    /\ \E j \in Bonds : call.d_prev[j] > 0
    /\ \A j \in Bonds : call.val[j] = 0

\* C9: the law's c is the supplied c whenever the caller supplied one, and
\* the derived 9 E / (pi t horizon^3) only when the caller supplied none;
\* stated here of the laws built with positive E, Gf and horizon only.
C9_SuppliedStiffnessOverrides ==
    (ctor.status = "returned" /\ ~InvalidConfiguration(args)) =>
        IF args.c # None THEN law.c = args.c
        ELSE law.c = calculate_bond_stiffness(args.E, args.t, args.horizon)

\* C10: no particle move and no update_penetrator_position or
\* calculate_penetrator_force call changes the penetrator's family, centre,
\* radius or search_radius.
C10_PenetratorFixed == [][pen' = pen]_vars

\* A method of the penetrator was called after a particle that was outside
\* search_radius at construction moved inside it, and is still not in family.
C10_Witness ==
    /\ pcall.op # "none"
    /\ \E i \in Nodes :
          /\ ~WithinEuclidean(x_init[i], pen.centre, pen.search_radius)
          /\ WithinEuclidean(x[i], pen.centre, pen.search_radius)
          /\ Le(FamilyDistance(x[i], pen.centre), pen.search_radius)
          /\ ~InFamily(i)

\* The parameters a law stores, and the callable it stores with the values
\* that callable closed over.
StoredParameters(l) == <<l.c, l.s0, l.s1, l.sc, l.gamma>>
CallableParameters(l) == l.calculate_bond_damage

\* The arguments that agree with a on the variant, the Material, the
\* horizon, the thickness and the shape parameters, and supply whatever c,
\* s0 and sc the variant's constructor takes.
SameTupleArgs(a) ==
    {[a EXCEPT !.c = c, !.s0 = s0, !.sc = sc] :
        c \in SuppliedC,
        s0 \in (IF a.variant = "Linear" THEN {None} ELSE SuppliedS0),
        sc \in SuppliedSc}

\* No calculate_bond_damage call changes the parameters the law stores or
\* the values its callable uses.
ParametersUnchanged ==
    /\ StoredParameters(law)' = StoredParameters(law)
    /\ CallableParameters(law)' = CallableParameters(law)

\* C11, as stated: every law built from the same variant, Material, horizon,
\* thickness and shape parameters as this one has the same c, s0, s1, sc and
\* gamma as this one, and no sequence of calculate_bond_damage calls changes
\* the stored parameters or the values the damage callable uses.
C11_ParametersFunctionOfTuple ==
    /\ [](ctor.status = "returned" =>
             \A b \in SameTupleArgs(args) :
                NewLaw(b).status = "returned" =>
                   StoredParameters(NewLaw(b).obj) = StoredParameters(law))
    /\ [][ParametersUnchanged]_vars

\* C11, amended: after any sequence of calculate_bond_damage calls the law
\* still stores the c, s0, s1, sc and gamma, and its callable still uses
\* the values, that the constructor computes from the law's variant,
\* Material, horizon, thickness, shape parameters and the c, s0 and sc the
\* caller supplied (and, for Linear, damage_on); no call changes them.
C11_ParametersFunctionOfArguments ==
    /\ [](ctor.status = "returned" =>
             /\ StoredParameters(law) = StoredParameters(NewLaw(args).obj)
             /\ CallableParameters(law) = CallableParameters(NewLaw(args).obj))
    /\ [][ParametersUnchanged]_vars

\* A law built with a supplied critical stretch, which differs from the one
\* derived from the same Material, horizon, thickness and shape parameters,
\* was called, the call raised the damage, and the law still stores, and
\* its callable still uses, the supplied value.
C11_Witness ==
    /\ DamageCalled
    /\ args.sc # None
    /\ \E j \in Bonds : call.val[j] > call.d_prev[j]
    /\ law.sc = args.sc
    /\ law.calculate_bond_damage.sc = args.sc
    /\ NewLaw([args EXCEPT !.sc = None]).status = "returned"
    /\ NewLaw([args EXCEPT !.sc = None]).obj.sc # law.sc

====
